---- MODULE Spec2Model ----
(***************************************************************************)
(* Usage-accounting engine of statusline: the corpus scanner and the       *)
(* transcript reader (data/reader.py), the session windower and the limit  *)
(* detector (data/aggregator.py) and the quota aggregator                  *)
(* (core/analyzer.py).                                                     *)
(*                                                                         *)
(* Instants are integers counted in ticks, TicksPerHour ticks to the hour, *)
(* tick 0 being a Monday 00:00 and the first instant of a month.  The      *)
(* local zone is taken to be UTC, so that local and UTC calendars agree.   *)
(* Strings that the code formats or searches (identifiers, model ids,      *)
(* message texts) are sequences of string pieces, so that formatting and   *)
(* substring tests are computed.  Money is counted in units of 10^-8 USD.  *)
(* A decoded JSON object is a record with one field per key the code       *)
(* reads; an absent key holds the value its .get() default gives.          *)
(***************************************************************************)
EXTENDS Integers, Sequences, FiniteSets, TLC

VARIABLES
    pc,              \* position of the computation
    corpus,          \* the lines the files under the projects directory hold
    call,            \* a function called on its own: its name and arguments
    ret,             \* the value that call returned, None before it returns
    now,             \* the latest reading of the system clock
    cutoff,          \* load_usage_entries: cutoff, None before it is set
    raw_entries,     \* load_usage_entries: the decoded lines, in scan order
    seen,            \* load_usage_entries: the identity keys met so far
    entries,         \* list[UsageEntry]: built by load_usage_entries, then
                     \* sorted; the input of transform_to_blocks
    idx,             \* transform_to_blocks: index of the next entry
    blocks,          \* transform_to_blocks: the output list
    current,         \* transform_to_blocks: the current block, <<>> for None
    since,           \* read_transcript_output_tokens: since, None if not given
    lines,           \* read_transcript_output_tokens: the lines read so far
    prev_addr,       \* address of the dict decoded from the previous line
    last_out,        \* read_transcript_output_tokens: last_out
    session_output,  \* compute_quota: session_output
    result           \* compute_quota: result_entries

vars == <<pc, corpus, call, ret, now, cutoff, raw_entries, seen, entries, idx, blocks, current,
          since, lines, prev_addr, last_out, session_output, result>>

(***************************************************************************)
(* Bounds of the model.                                                    *)
(***************************************************************************)
TicksPerHour == 2
MaxEvents == 3
MaxStamp == 11
MaxRecords == 4
MaxLines == 3
NumAddresses == 3
MaxBlocks == 6
MaxDays == 8

(***************************************************************************)
(* Program constants.                                                      *)
(***************************************************************************)
SESSION_HOURS == 5
hours_back == 96
WEEKLY_OUTPUT_LIMIT == 300000
WEEKLY_SONNET_LIMIT == 1000000
EXTRA_USAGE_LIMIT == 50
P90_MIN_SESSIONS == 5
\* 0.95, in hundredths.
P90_LIMIT_THRESHOLD == 95
COMMON_TOKEN_LIMITS == <<19000, 88000, 220000, 880000>>

PLAN_LIMITS ==
    [pro |-> [output_limit |-> 19000],
     max5 |-> [output_limit |-> 88000],
     max20 |-> [output_limit |-> 220000]]

\* USD per million tokens times 100, which is 10^-8 USD per token.
MODEL_PRICING ==
    [opus |-> [input |-> 500, output |-> 2500, cache_creation |-> 625],
     sonnet |-> [input |-> 300, output |-> 1500, cache_creation |-> 375],
     haiku |-> [input |-> 100, output |-> 500, cache_creation |-> 125]]

None == -1

\* No function is called on its own.
NoCall == [fn |-> "none"]

At(h) == h * TicksPerHour

session_duration == SESSION_HOURS * TicksPerHour

\* The instants the system clock is read at: Monday 00:00, Monday 06:00 and
\* Saturday 12:00 of the same week.
Nows == {At(0), At(6), At(132)}

RECURSIVE SeqSum(_)
SeqSum(s) == IF s = <<>> THEN 0 ELSE Head(s) + SeqSum(Tail(s))

RECURSIVE FnSum(_)
FnSum(f) ==
    IF DOMAIN f = {} THEN 0
    ELSE LET k == CHOOSE x \in DOMAIN f : TRUE
         IN  f[k] + FnSum([x \in DOMAIN f \ {k} |-> f[x]])

Last(s) == s[Len(s)]

SetMax(S) == CHOOSE m \in S : \A x \in S : x <= m

SetMin(S) == CHOOSE m \in S : \A x \in S : m <= x

\* Python's `a or b` on strings.
Or(a, b) == IF a # <<>> THEN a ELSE b

\* dict[key] = value
Put(f, k, v) == [x \in DOMAIN f \cup {k} |-> IF x = k THEN v ELSE f[x]]

(***************************************************************************)
(* models.py                                                               *)
(***************************************************************************)
lower(piece) ==
    CASE piece = "Opus" -> "opus"
      [] piece = "Sonnet" -> "sonnet"
      [] piece = "Haiku" -> "haiku"
      [] piece = "Limit" -> "limit"
      [] piece = "Rate" -> "rate"
      [] piece = "Wait" -> "wait"
      [] piece = "Minutes" -> "minutes"
      [] piece = "Reached" -> "reached"
      [] OTHER -> piece

\* `word in text.lower()`, for a word that is one piece.
Contains(text, word) == \E i \in 1..Len(text) : lower(text[i]) = word

model_family(model) ==
    IF Contains(model, "opus") THEN "opus"
    ELSE IF Contains(model, "sonnet") THEN "sonnet"
    ELSE IF Contains(model, "haiku") THEN "haiku"
    ELSE "other"

TokenCounts ==
    [input_tokens |-> 0, output_tokens |-> 0,
     cache_creation_tokens |-> 0, cache_read_tokens |-> 0]

UsageEntry(ts, inp, out, cc, cr, cost, model, mid, rid) ==
    [timestamp |-> ts, input_tokens |-> inp, output_tokens |-> out,
     cache_creation_tokens |-> cc, cache_read_tokens |-> cr,
     cost_usd |-> cost, model |-> model,
     message_id |-> mid, request_id |-> rid]

SessionBlock(id, start, end, gap) ==
    [id |-> id, start_time |-> start, end_time |-> end,
     entries |-> <<>>, token_counts |-> TokenCounts,
     is_active |-> FALSE, is_gap |-> gap, actual_end_time |-> None,
     per_model_stats |-> <<>>, models |-> <<>>,
     sent_messages_count |-> 0, cost_usd |-> 0, limit_messages |-> <<>>]

\* The display strings reset_label and remaining are left out; reset_at is
\* the instant, None for "".  pct is in tenths of a percent, spent in cents.
QuotaEntry(label, pct, used, total, spent, limit, reset_at) ==
    [label |-> label, pct |-> pct, used |-> used, total |-> total,
     spent |-> spent, limit |-> limit, reset_at |-> reset_at]

(***************************************************************************)
(* Decoded log records.                                                    *)
(***************************************************************************)
\* A usage object; <<>> where a record has none.
Usage(inp, out, cc, cr) ==
    << [input_tokens |-> inp, output_tokens |-> out,
        cache_creation_tokens |-> cc, cache_read_tokens |-> cr,
        model |-> <<>>] >>

\* The "message" value: is_dict is FALSE when it is not an object.
Message(id, usage, model, content) ==
    [is_dict |-> TRUE, id |-> id, usage |-> usage, model |-> model,
     content |-> content]

NoMessage == Message(<<>>, <<>>, <<>>, <<>>)

NotADictMessage == [NoMessage EXCEPT !.is_dict = FALSE]

\* timestamp is the instant the value denotes, None when the key is absent
\* or the value does not parse; cost and cost_usd are None when absent.
Record(type, ts, message, ids, usage, model) ==
    [type |-> type, timestamp |-> ts, message |-> message,
     message_id |-> ids[1], requestId |-> ids[2], request_id |-> ids[3],
     usage |-> usage, own |-> <<>>, cost |-> None, cost_usd |-> None,
     model |-> model, content_is_str |-> TRUE, content |-> <<>>]

(***************************************************************************)
(* data/reader.py                                                          *)
(***************************************************************************)
_parse_timestamp(value) == IF value = None THEN None ELSE value

token_sources_usage_first(data) ==
    LET msg_usage == IF data.message.is_dict THEN data.message.usage ELSE <<>>
        self == IF data.own # <<>> THEN data.own ELSE Usage(0, 0, 0, 0)
    IN  data.usage \o msg_usage \o self

\* The candidate sources of _extract_entry_tokens, in the order it tries
\* them; the record itself comes last.
token_sources(data) ==
    LET msg_usage == IF data.message.is_dict THEN data.message.usage ELSE <<>>
        self == IF data.own # <<>> THEN data.own ELSE Usage(0, 0, 0, 0)
    IN  IF data.type = "assistant"
        THEN msg_usage \o data.usage \o self
        ELSE data.usage \o msg_usage \o self

_extract_entry_tokens(data) ==
    LET sources == token_sources(data)
        hits == {i \in 1..Len(sources) :
                    sources[i].input_tokens > 0 \/ sources[i].output_tokens > 0}
    IN  IF hits = {} THEN TokenCounts
        ELSE LET src == sources[SetMin(hits)]
             IN  [input_tokens |-> src.input_tokens,
                  output_tokens |-> src.output_tokens,
                  cache_creation_tokens |-> src.cache_creation_tokens,
                  cache_read_tokens |-> src.cache_read_tokens]

_estimate_cost_cache_read(tok) ==
    LET pricing == MODEL_PRICING.sonnet
    IN  tok.input_tokens * pricing.input
        + tok.output_tokens * pricing.output
        + (tok.cache_creation_tokens + tok.cache_read_tokens)
              * pricing.cache_creation

_estimate_cost(tok) ==
    LET pricing == MODEL_PRICING.sonnet
    IN  tok.input_tokens * pricing.input
        + tok.output_tokens * pricing.output
        + tok.cache_creation_tokens * pricing.cache_creation

_extract_model(data) ==
    LET candidates ==
            << IF data.message.is_dict THEN data.message.model ELSE <<>>,
               data.model,
               IF data.usage # <<>> THEN data.usage[1].model ELSE <<>> >>
        hits == {i \in 1..3 : candidates[i] # <<>>}
    IN  IF hits = {} THEN <<>> ELSE candidates[SetMin(hits)]

\* message_id of _create_unique_hash and of the UsageEntry built.
record_message_id(data) ==
    Or(data.message_id, IF data.message.is_dict THEN data.message.id ELSE <<>>)

record_request_id(data) == Or(data.requestId, data.request_id)

\* f"{message_id}:{request_id}"
FormatKey(message_id, request_id) == message_id \o <<":">> \o request_id

_create_unique_hash_either(data) ==
    LET message_id == record_message_id(data)
        request_id == record_request_id(data)
    IN  IF message_id # <<>> \/ request_id # <<>>
        THEN FormatKey(message_id, request_id) ELSE <<>>

\* <<>> stands for None: a key is never empty.
_create_unique_hash(data) ==
    LET message_id == record_message_id(data)
        request_id == record_request_id(data)
    IN  IF message_id # <<>> /\ request_id # <<>>
        THEN FormatKey(message_id, request_id) ELSE <<>>

\* The cost of the entry built from data: lines 324-332.
entry_cost(data, tok) ==
    LET raw_cost == IF data.cost # None /\ data.cost # 0
                    THEN data.cost ELSE data.cost_usd
        cost == IF raw_cost # None THEN raw_cost ELSE 0
    IN  IF cost = 0 /\ (tok.input_tokens > 0 \/ tok.output_tokens > 0)
        THEN _estimate_cost(tok) ELSE cost

load_line_raw_filtered(st, data, cut) ==
    LET h == _create_unique_hash(data)
        kept == IF h # <<>> THEN [st EXCEPT !.seen = @ \cup {h}] ELSE st
        ts == _parse_timestamp(data.timestamp)
        tok == _extract_entry_tokens(data)
    IN  IF h # <<>> /\ h \in st.seen THEN st
        ELSE IF ts = None THEN kept
        ELSE IF cut # None /\ ts < cut THEN kept
        ELSE IF tok.input_tokens = 0 /\ tok.output_tokens = 0 THEN kept
        ELSE [kept EXCEPT
                !.raw_entries = Append(@, data),
                !.entries = Append(@,
                    UsageEntry(ts, tok.input_tokens, tok.output_tokens,
                               tok.cache_creation_tokens, tok.cache_read_tokens,
                               entry_cost(data, tok), _extract_model(data),
                               record_message_id(data), record_request_id(data)))]

\* The body of the loop of load_usage_entries for one decoded line; st holds
\* raw_entries, seen and entries.  A line that does not decode changes
\* nothing.
load_line(st, data, cut) ==
    LET raw == [st EXCEPT !.raw_entries = Append(@, data)]
        h == _create_unique_hash(data)
        kept == IF h # <<>> THEN [raw EXCEPT !.seen = @ \cup {h}] ELSE raw
        ts == _parse_timestamp(data.timestamp)
        tok == _extract_entry_tokens(data)
    IN  IF h # <<>> /\ h \in st.seen THEN raw
        ELSE IF ts = None THEN kept
        ELSE IF cut # None /\ ts < cut THEN kept
        ELSE IF tok.input_tokens = 0 /\ tok.output_tokens = 0 THEN kept
        ELSE [kept EXCEPT !.entries = Append(@,
                UsageEntry(ts, tok.input_tokens, tok.output_tokens,
                           tok.cache_creation_tokens, tok.cache_read_tokens,
                           entry_cost(data, tok), _extract_model(data),
                           record_message_id(data), record_request_id(data)))]

RECURSIVE load_lines(_, _, _)
load_lines(st, datas, cut) ==
    IF datas = <<>> THEN st
    ELSE load_lines(load_line(st, Head(datas), cut), Tail(datas), cut)

\* entries.sort(key=lambda e: e.timestamp): a stable sort.
RECURSIVE sort_by_timestamp(_)
sort_by_timestamp(es) ==
    IF es = <<>> THEN <<>>
    ELSE LET m == SetMin({es[i].timestamp : i \in 1..Len(es)})
             k == SetMin({i \in 1..Len(es) : es[i].timestamp = m})
         IN  <<es[k]>> \o sort_by_timestamp(
                 [i \in 1..(Len(es) - 1) |-> IF i < k THEN es[i] ELSE es[i + 1]])

\* The body of the loop of read_transcript_output_tokens for one decoded
\* line; addr is id(data).  last_out is kept in two parts, the entries with a
\* string key and the entries with an id(data) key: a string never equals an
\* integer.
transcript_line(lo, data, addr, snc) ==
    LET ts == _parse_timestamp(data.timestamp)
        usage == data.message.usage
        out == IF usage = <<>> THEN 0 ELSE usage[1].output_tokens
        msg_id == data.message.id
        req_id == Or(data.requestId, data.request_id)
    IN  IF data.type # "assistant" THEN lo
        ELSE IF snc # None /\ (ts = None \/ ts < snc) THEN lo
        ELSE IF ~data.message.is_dict THEN lo
        ELSE IF out <= 0 THEN lo
        ELSE IF msg_id # <<>> /\ req_id # <<>>
        THEN [lo EXCEPT !.keyed = Put(@, FormatKey(msg_id, req_id), out)]
        ELSE [lo EXCEPT !.anon = Put(@, addr, out)]

EmptyLastOut == [keyed |-> <<>>, anon |-> <<>>]

\* sum(last_out.values())
last_out_total(lo) == FnSum(lo.keyed) + FnSum(lo.anon)

RECURSIVE transcript_lines(_, _, _, _)
transcript_lines(lo, datas, addrs, snc) ==
    IF datas = <<>> THEN lo
    ELSE transcript_lines(transcript_line(lo, Head(datas), Head(addrs), snc),
                          Tail(datas), Tail(addrs), snc)

\* The addresses successive json.loads results can have: the dict of the
\* previous line is still referenced when the next one is allocated, any
\* older one has been freed and its address may be used again.
AddressLists(n) ==
    {a \in [1..n -> 1..NumAddresses] : \A i \in 1..(n - 1) : a[i] # a[i + 1]}

(***************************************************************************)
(* data/aggregator.py: block lifecycle                                     *)
(***************************************************************************)
_should_create_new_block_startfield(block, entry) ==
    \/ entry.timestamp >= block.start_time
    \/ /\ block.entries # <<>>
       /\ entry.timestamp - Last(block.entries).timestamp >= session_duration

_should_create_new_block_silence(block, entry) ==
    /\ block.entries # <<>>
    /\ entry.timestamp - Last(block.entries).timestamp >= session_duration

_should_create_new_block(block, entry) ==
    \/ entry.timestamp >= block.end_time
    \/ /\ block.entries # <<>>
       /\ entry.timestamp - Last(block.entries).timestamp >= session_duration

_new_block_unfloored(entry) ==
    LET start == entry.timestamp
        end == start + session_duration
    IN  SessionBlock(<<"block", start>>, start, end, FALSE)

_new_block(entry) ==
    LET start == entry.timestamp - (entry.timestamp % TicksPerHour)
        end == start + session_duration
    IN  SessionBlock(<<"block", start>>, start, end, FALSE)

NewStats ==
    [input_tokens |-> 0, output_tokens |-> 0,
     cache_creation_tokens |-> 0, cache_read_tokens |-> 0,
     cost_usd |-> 0, entries_count |-> 0]

_add_entry_tokens_swapped(tc, entry) ==
    [tc EXCEPT
        !.input_tokens = @ + entry.input_tokens,
        !.output_tokens = @ + entry.output_tokens,
        !.cache_creation_tokens = @ + entry.cache_read_tokens,
        !.cache_read_tokens = @ + entry.cache_creation_tokens]

\* The four += on block.token_counts.
_add_entry_tokens(tc, entry) ==
    [tc EXCEPT
        !.input_tokens = @ + entry.input_tokens,
        !.output_tokens = @ + entry.output_tokens,
        !.cache_creation_tokens = @ + entry.cache_creation_tokens,
        !.cache_read_tokens = @ + entry.cache_read_tokens]

_add_entry_stats_reset(block, entry) ==
    LET family == IF entry.model # <<>> THEN model_family(entry.model)
                  ELSE "other"
        old == block.per_model_stats
        have == {old[i].family : i \in 1..Len(old)}
        stats0 == IF family \in have THEN old
                  ELSE Append(old, [family |-> family, stats |-> NewStats])
        stats1 == [i \in 1..Len(stats0) |->
                    IF stats0[i].family # family THEN stats0[i]
                    ELSE [stats0[i] EXCEPT !.stats = [NewStats EXCEPT
                        !.input_tokens = @ + entry.input_tokens,
                        !.output_tokens = @ + entry.output_tokens,
                        !.cache_creation_tokens = @ + entry.cache_creation_tokens,
                        !.cache_read_tokens = @ + entry.cache_read_tokens,
                        !.cost_usd = @ + entry.cost_usd,
                        !.entries_count = @ + 1]]]
        seen_model == \E i \in 1..Len(block.models) : block.models[i] = entry.model
    IN  [block EXCEPT
            !.entries = Append(@, entry),
            !.token_counts = _add_entry_tokens(@, entry),
            !.cost_usd = @ + entry.cost_usd,
            !.per_model_stats = stats1,
            !.models = IF entry.model # <<>> /\ ~seen_model
                       THEN Append(@, entry.model) ELSE @,
            !.sent_messages_count = @ + 1]

_add_entry(block, entry) ==
    LET family == IF entry.model # <<>> THEN model_family(entry.model)
                  ELSE "other"
        old == block.per_model_stats
        have == {old[i].family : i \in 1..Len(old)}
        stats0 == IF family \in have THEN old
                  ELSE Append(old, [family |-> family, stats |-> NewStats])
        stats1 == [i \in 1..Len(stats0) |->
                    IF stats0[i].family # family THEN stats0[i]
                    ELSE [stats0[i] EXCEPT !.stats = [@ EXCEPT
                        !.input_tokens = @ + entry.input_tokens,
                        !.output_tokens = @ + entry.output_tokens,
                        !.cache_creation_tokens = @ + entry.cache_creation_tokens,
                        !.cache_read_tokens = @ + entry.cache_read_tokens,
                        !.cost_usd = @ + entry.cost_usd,
                        !.entries_count = @ + 1]]]
        seen_model == \E i \in 1..Len(block.models) : block.models[i] = entry.model
    IN  [block EXCEPT
            !.entries = Append(@, entry),
            !.token_counts = _add_entry_tokens(@, entry),
            !.cost_usd = @ + entry.cost_usd,
            !.per_model_stats = stats1,
            !.models = IF entry.model # <<>> /\ ~seen_model
                       THEN Append(@, entry.model) ELSE @,
            !.sent_messages_count = @ + 1]

\* The result is a list of zero or one block, <<>> standing for None.
_check_for_gap_strict(last_block, next_entry) ==
    IF last_block.actual_end_time = None THEN <<>>
    ELSE IF next_entry.timestamp - last_block.actual_end_time <= session_duration
    THEN <<>>
    ELSE << SessionBlock(<<"gap", last_block.actual_end_time>>,
                         last_block.actual_end_time,
                         next_entry.timestamp, TRUE) >>

_check_for_gap(last_block, next_entry) ==
    IF last_block.actual_end_time = None THEN <<>>
    ELSE IF next_entry.timestamp - last_block.actual_end_time < session_duration
    THEN <<>>
    ELSE << SessionBlock(<<"gap", last_block.actual_end_time>>,
                         last_block.actual_end_time,
                         next_entry.timestamp, TRUE) >>

_finalize(block) ==
    [block EXCEPT
        !.actual_end_time = IF block.entries # <<>>
                            THEN Last(block.entries).timestamp ELSE @,
        !.sent_messages_count = Len(block.entries)]

_mark_active_inclusive(bs, t) ==
    [i \in 1..Len(bs) |->
        IF ~bs[i].is_gap /\ bs[i].end_time >= t
        THEN [bs[i] EXCEPT !.is_active = TRUE] ELSE bs[i]]

_mark_active(bs, t) ==
    [i \in 1..Len(bs) |->
        IF ~bs[i].is_gap /\ bs[i].end_time > t
        THEN [bs[i] EXCEPT !.is_active = TRUE] ELSE bs[i]]

\* One iteration of the loop of transform_to_blocks: the new values of
\* blocks and current.
transform_body_noadd(bs, cur, entry) ==
    IF cur = <<>> \/ _should_create_new_block(cur[1], entry)
    THEN LET done == IF cur = <<>> THEN bs
                     ELSE LET fin == _finalize(cur[1])
                          IN  Append(bs, fin) \o _check_for_gap(fin, entry)
         IN  [blocks |-> done, current |-> << _new_block(entry) >>]
    ELSE [blocks |-> bs, current |-> << _add_entry(cur[1], entry) >>]

transform_body(bs, cur, entry) ==
    LET new == cur = <<>> \/ _should_create_new_block(cur[1], entry)
        done == IF new /\ cur # <<>>
                THEN LET fin == _finalize(cur[1])
                     IN  Append(bs, fin) \o _check_for_gap(fin, entry)
                ELSE bs
        blk == IF new THEN _new_block(entry) ELSE cur[1]
    IN  [blocks |-> done, current |-> << _add_entry(blk, entry) >>]

(***************************************************************************)
(* data/aggregator.py: percentile estimation                               *)
(* The doubles of the code are counted exactly, in tenths: the fractional  *)
(* rank 0.9 * (n - 1) has one decimal.                                     *)
(***************************************************************************)
\* sorted(values)
RECURSIVE sorted(_)
sorted(values) ==
    IF values = <<>> THEN <<>>
    ELSE LET m == SetMin({values[i] : i \in 1..Len(values)})
             k == SetMin({i \in 1..Len(values) : values[i] = m})
         IN  <<m>> \o sorted([i \in 1..(Len(values) - 1) |->
                                IF i < k THEN values[i] ELSE values[i + 1]])

interpolated_p90_floor_rank(values) ==
    LET vs == sorted(values)
        n == Len(vs)
        rank == 9 * (n - 1)
        lower_ == rank \div 10
    IN  vs[lower_ + 1] * 10

\* The body the two variants share: p90 in tenths.  The list is indexed
\* from 0 in the code and from 1 here.
interpolated_p90(values) ==
    LET vs == sorted(values)
        n == Len(vs)
        rank == 9 * (n - 1)
        lower_ == rank \div 10
        upper_ == IF lower_ + 1 < n - 1 THEN lower_ + 1 ELSE n - 1
        frac == rank % 10
    IN  vs[lower_ + 1] * 10 + frac * (vs[upper_ + 1] - vs[lower_ + 1])

\* max(int(p90), min_val), for values that are not negative.
_linear_interpolation_p90(values, min_val) ==
    LET p90 == interpolated_p90(values) \div 10
    IN  IF p90 > min_val THEN p90 ELSE min_val

\* The result is in tenths.
_linear_interpolation_p90_float(values) == interpolated_p90(values)

completed_nogap(bs) == SelectSeq(bs, LAMBDA b : ~b.is_gap)

\* [b for b in blocks if not b.is_gap and not b.is_active]
completed(bs) == SelectSeq(bs, LAMBDA b : ~b.is_gap /\ ~b.is_active)

_hit_limit(output_tokens) ==
    \E i \in 1..Len(COMMON_TOKEN_LIMITS) :
        output_tokens * 100 >= COMMON_TOKEN_LIMITS[i] * P90_LIMIT_THRESHOLD

OutputsOf(bs) == [i \in 1..Len(bs) |-> bs[i].token_counts.output_tokens]

compute_p90_output_limit(bs, min_limit) ==
    LET outs == OutputsOf(completed(bs))
        hit_tokens == SelectSeq(outs, _hit_limit)
        values == IF hit_tokens # <<>> THEN hit_tokens
                  ELSE SelectSeq(outs, LAMBDA v : v > 0)
    IN  IF Len(completed(bs)) < P90_MIN_SESSIONS THEN None
        ELSE IF values = <<>> THEN min_limit
        ELSE _linear_interpolation_p90(values, min_limit)

\* buffer is in tenths and the result in hundredths of the unit of cost.
compute_p90_cost_limit(bs, min_limit, buffer) ==
    LET done == completed(bs)
        costs == SelectSeq([i \in 1..Len(done) |-> done[i].cost_usd],
                           LAMBDA c : c > 0)
        p90 == _linear_interpolation_p90_float(costs)
    IN  IF Len(done) < P90_MIN_SESSIONS THEN None
        ELSE IF costs = <<>> THEN None
        ELSE IF p90 * buffer > min_limit * 100 THEN p90 * buffer
        ELSE min_limit * 100

(***************************************************************************)
(* data/aggregator.py: limit detection                                     *)
(***************************************************************************)
\* An exception that leaves a function: what the call ends with instead of
\* a value.
Raise(e) == [raised |-> e]

IsRaise(r) == "raised" \in DOMAIN r

\* A list of results that is an exception instead.
Raises(rs) == rs # <<>> /\ IsRaise(rs[1])

\* A number of 20 digits: Python holds it, the C integers under datetime and
\* timedelta do not.
TooLarge == -2

\* An epoch whose year lies beyond 9999.
OutOfYears == -3

\* int() of a run of digits that follows "wait"; None for a piece that is
\* not a run of digits.
IntOf(piece) ==
    CASE piece = "60" -> 60
      [] piece = "120" -> 120
      [] piece = "99999999999999999999" -> TooLarge
      [] OTHER -> None

\* timedelta(minutes=mins) in ticks.
Minutes(mins) == (mins * TicksPerHour) \div 60

\* re.search(r"wait\s+(\d+)\s+minutes?", content.lower()): the first match.
\* timedelta(minutes=mins) raises OverflowError for a number too large.
_extract_wait_time_lastmatch(content, ts) ==
    LET hits == {i \in 1..(Len(content) - 2) :
                    /\ lower(content[i]) = "wait"
                    /\ IntOf(content[i + 1]) # None
                    /\ lower(content[i + 2]) \in {"minute", "minutes"}}
    IN  IF hits = {} THEN [reset_time |-> None, wait_minutes |-> None]
        ELSE LET mins == IntOf(content[SetMax(hits) + 1])
             IN  IF mins = TooLarge THEN Raise("OverflowError")
                 ELSE [reset_time |-> ts + Minutes(mins), wait_minutes |-> mins]

_extract_wait_time(content, ts) ==
    LET hits == {i \in 1..(Len(content) - 2) :
                    /\ lower(content[i]) = "wait"
                    /\ IntOf(content[i + 1]) # None
                    /\ lower(content[i + 2]) \in {"minute", "minutes"}}
    IN  IF hits = {} THEN [reset_time |-> None, wait_minutes |-> None]
        ELSE LET mins == IntOf(content[SetMin(hits) + 1])
             IN  IF mins = TooLarge THEN Raise("OverflowError")
                 ELSE [reset_time |-> ts + Minutes(mins), wait_minutes |-> mins]

\* The result is a list of zero or one signal, <<>> standing for None, or an
\* exception.
_check_system_message(raw) ==
    LET ts == _parse_timestamp(raw.timestamp)
        w == _extract_wait_time(raw.content, ts)
    IN  IF ~raw.content_is_str THEN <<>>
        ELSE IF ~Contains(raw.content, "limit") /\ ~Contains(raw.content, "rate")
        THEN <<>>
        ELSE IF ts = None THEN <<>>
        ELSE IF IsRaise(w) THEN << w >>
        ELSE << [type |-> "system_limit", timestamp |-> ts,
                 content |-> raw.content, reset_time |-> w.reset_time,
                 wait_minutes |-> w.wait_minutes] >>

\* "limit reached" in text.lower()
HasLimitReached(text) ==
    \E i \in 1..(Len(text) - 1) :
        lower(text[i]) = "limit" /\ lower(text[i + 1]) = "reached"

\* datetime.fromtimestamp(int(digits), tz=timezone.utc) for the runs of
\* digits of the model: the instant, OutOfYears where it raises ValueError,
\* TooLarge where it raises OverflowError; None for a piece that is not a
\* run of digits.
EpochOf(piece) ==
    CASE piece = "E7" -> At(7)
      [] piece = "E140" -> At(140)
      [] piece = "E999999999999" -> OutOfYears
      [] piece = "E99999999999999999999" -> TooLarge
      [] OTHER -> None

\* re.search(r"limit reached\|(\d+)", text): the first match, in the text as
\* written.  ValueError and OSError are caught, OverflowError is not.
_parse_reset_timestamp(text) ==
    LET hits == {i \in 1..(Len(text) - 3) :
                    /\ text[i] = "limit"
                    /\ text[i + 1] = "reached"
                    /\ text[i + 2] = "|"
                    /\ EpochOf(text[i + 3]) # None}
        epoch == EpochOf(text[SetMin(hits) + 3])
    IN  IF hits = {} THEN [reset_time |-> None]
        ELSE IF epoch = TooLarge THEN Raise("OverflowError")
        ELSE IF epoch = OutOfYears THEN [reset_time |-> None]
        ELSE [reset_time |-> epoch]

\* message.content is a list of items [type, content], the content of a
\* tool_result item a list of texts.  The first text with "limit reached",
\* in the order of the two loops, makes the signal.  A message that is not
\* an object has no .get().
_check_user_message(raw) ==
    LET items == raw.message.content
        ts == _parse_timestamp(raw.timestamp)
        texts == {p \in UNION {{<<i, j>> : j \in 1..Len(items[i].content)} :
                                  i \in 1..Len(items)} :
                    /\ items[p[1]].type = "tool_result"
                    /\ HasLimitReached(items[p[1]].content[p[2]])
                    /\ ts # None}
        first == CHOOSE p \in texts :
                    \A q \in texts : p[1] < q[1] \/ (p[1] = q[1] /\ p[2] <= q[2])
    IN  IF ~raw.message.is_dict THEN << Raise("AttributeError") >>
        ELSE IF texts = {} THEN <<>>
        ELSE LET text == items[first[1]].content[first[2]]
                 r == _parse_reset_timestamp(text)
             IN  IF IsRaise(r) THEN << r >>
                 ELSE << [type |-> "general_limit", timestamp |-> ts,
                          content |-> text, reset_time |-> r.reset_time,
                          wait_minutes |-> None] >>

_detect_single(raw) ==
    IF raw.type = "system" THEN _check_system_message(raw)
    ELSE IF raw.type = "user" THEN _check_user_message(raw)
    ELSE <<>>

\* The list of signals, or the exception of the first record that raises.
RECURSIVE detect_limits(_)
detect_limits(raws) ==
    IF raws = <<>> THEN <<>>
    ELSE LET info == _detect_single(Head(raws))
         IN  IF Raises(info) THEN info
             ELSE LET rest == detect_limits(Tail(raws))
                  IN  IF Raises(rest) THEN rest ELSE info \o rest

(***************************************************************************)
(* core/analyzer.py                                                        *)
(***************************************************************************)
weekday(t) == (t \div At(24)) % 7

hour(t) == (t \div TicksPerHour) % 24

\* now.replace(hour=4, minute=0, second=0, microsecond=0)
FourOClock(t) == t - (t % At(24)) + At(4)

_last_weekly_reset_nowrap(t) == FourOClock(t) - weekday(t) * At(24)

_last_weekly_reset(t) ==
    LET days_since_monday == IF weekday(t) = 0 /\ hour(t) < 4 THEN 7
                             ELSE weekday(t)
    IN  FourOClock(t) - days_since_monday * At(24)

_next_weekly_reset(t) ==
    LET d == (7 - weekday(t)) % 7
        days_until_monday == IF d = 0 /\ hour(t) >= 4 THEN 7 ELSE d
    IN  FourOClock(t) + days_until_monday * At(24)

\* A month of the model has 30 days.
month_start(t) == t - (t % At(24 * 30))

_next_month_start(t) == month_start(t) + At(24 * 30)

\* round(): the integer nearest to n / d, ties to even.
Round(n, d) ==
    LET q == n \div d
        r == n % d
    IN  IF 2 * r > d THEN q + 1
        ELSE IF 2 * r < d THEN q
        ELSE IF q % 2 = 0 THEN q ELSE q + 1

\* "Find active block": the last block of the list that is active and not a
\* gap, <<>> for None.
ActiveIdx(bs) == {i \in 1..Len(bs) : bs[i].is_active /\ ~bs[i].is_gap}

find_active(bs) ==
    IF ActiveIdx(bs) = {} THEN <<>> ELSE << bs[SetMax(ActiveIdx(bs))] >>

\* "Detect limit messages and attach to blocks"
attach_limits(bs, limit_infos) ==
    [i \in 1..Len(bs) |->
        [bs[i] EXCEPT !.limit_messages =
            SelectSeq(limit_infos,
                LAMBDA li : bs[i].start_time <= li.timestamp
                            /\ li.timestamp <= bs[i].end_time)]]

\* The session row: lines 145-172.
session_row(active, used, output_limit) ==
    LET pct == IF output_limit > 0 THEN Round(used * 1000, output_limit) ELSE 0
        resets == IF active = <<>> THEN {}
                  ELSE {i \in 1..Len(active[1].limit_messages) :
                          active[1].limit_messages[i].reset_time # None}
        reset_dt == IF active = <<>> THEN None
                    ELSE IF resets = {} THEN active[1].end_time
                    ELSE active[1].limit_messages[SetMin(resets)].reset_time
    IN  QuotaEntry("Session", pct, used, output_limit, 0, 0, reset_dt)

\* weekly_all of the weekly aggregation, lines 175-182.
weekly_all(es, t) ==
    LET week_start == _last_weekly_reset(t)
    IN  SeqSum([i \in 1..Len(es) |->
            IF es[i].timestamp >= week_start THEN es[i].output_tokens ELSE 0])

weekly_sonnet(es, t) ==
    LET week_start == _last_weekly_reset(t)
    IN  SeqSum([i \in 1..Len(es) |->
            IF es[i].timestamp >= week_start
               /\ model_family(es[i].model) = "sonnet"
            THEN es[i].output_tokens ELSE 0])

monthly_cost(es, t) ==
    SeqSum([i \in 1..Len(es) |->
        IF es[i].timestamp >= month_start(t) THEN es[i].cost_usd ELSE 0])

\* The three rows after the session row: lines 184-236.
aggregate_rows(es, t) ==
    << QuotaEntry("Current week",
                  IF WEEKLY_OUTPUT_LIMIT > 0
                  THEN Round(weekly_all(es, t) * 1000, WEEKLY_OUTPUT_LIMIT) ELSE 0,
                  weekly_all(es, t), WEEKLY_OUTPUT_LIMIT, 0, 0,
                  _next_weekly_reset(t)),
       QuotaEntry("Week (Sonnet)",
                  IF WEEKLY_SONNET_LIMIT > 0
                  THEN Round(weekly_sonnet(es, t) * 1000, WEEKLY_SONNET_LIMIT) ELSE 0,
                  weekly_sonnet(es, t), WEEKLY_SONNET_LIMIT, 0, 0,
                  _next_weekly_reset(t)),
       QuotaEntry("Extra usage",
                  IF EXTRA_USAGE_LIMIT > 0
                  THEN Round(monthly_cost(es, t), EXTRA_USAGE_LIMIT * 100000) ELSE 0,
                  0, 0, Round(monthly_cost(es, t), 1000000),
                  EXTRA_USAGE_LIMIT * 100, _next_month_start(t)) >>

(***************************************************************************)
(* Inputs.                                                                 *)
(***************************************************************************)
SonnetModel == <<"claude", "sonnet", "4">>
OpusModel == <<"claude", "Opus", "4">>

\* The windower alone: time-sorted event lists, stamped within the first
\* MaxStamp hours.
Stamps == 0..At(MaxStamp)

EventAt(ts, kind) ==
    CASE kind = 1 -> UsageEntry(ts, 1, 2, 4, 8, 3, SonnetModel, <<>>, <<>>)
      [] kind = 2 -> UsageEntry(ts, 16, 32, 0, 64, 5, OpusModel, <<>>, <<>>)

Events == {EventAt(ts, k) : ts \in Stamps, k \in {1, 2}}

IsSorted(es) ==
    \A i \in 1..(Len(es) - 1) : es[i].timestamp <= es[i + 1].timestamp

EventLists ==
    UNION {{es \in [1..n -> Events] : IsSorted(es)} : n \in 0..MaxEvents}

\* The windower on events of several models: two ids of the opus family,
\* one written with a capital; a sonnet, a haiku and an unknown id; no id;
\* an id that names opus and sonnet.  The counters of an event tell its
\* model; an event is stamped at 00:00 or one window later.
ModelIds ==
    << SonnetModel, OpusModel, <<"claude", "opus", "4", "1">>,
       <<"claude", "Haiku", "3">>, <<"gpt", "4">>, <<>>,
       <<"sonnet", "opus">> >>

ModelEvent(ts, m) ==
    UsageEntry(ts, m, 10 * m, 100 * m, 1000 * m, 3, ModelIds[m], <<>>, <<>>)

ModelEvents ==
    {ModelEvent(ts, m) : ts \in {0, At(SESSION_HOURS)}, m \in 1..Len(ModelIds)}

ModelEventLists ==
    UNION {{es \in [1..n -> ModelEvents] : IsSorted(es)} : n \in 0..MaxEvents}

NoIds == << <<>>, <<>>, <<>> >>

RequestId(rid) == << <<>>, rid, <<>> >>

\* The lines of the corpus: assistant records of Monday 05:00 and of
\* Saturday 10:00 with the key a:b, one of them without usage; records
\* without a key, one with a message id alone, one without a timestamp; a
\* system record announcing a limit.
QRecords ==
    { Record("assistant", At(5),
             Message(<<"a">>, Usage(1, 100, 0, 0), SonnetModel, <<>>),
             RequestId(<<"b">>), <<>>, <<>>),
      Record("assistant", At(130),
             Message(<<"a">>, Usage(2, 7, 8, 16), SonnetModel, <<>>),
             RequestId(<<"b">>), <<>>, <<>>),
      Record("assistant", At(130),
             Message(<<"a">>, <<>>, SonnetModel, <<>>),
             RequestId(<<"b">>), <<>>, <<>>),
      Record("assistant", At(130),
             Message(<<>>, Usage(4, 20, 0, 0), OpusModel, <<>>),
             NoIds, <<>>, <<>>),
      Record("user", At(131),
             Message(<<"a">>, <<>>, <<>>, <<>>),
             NoIds, Usage(0, 3, 0, 0), <<>>),
      Record("assistant", None,
             Message(<<>>, Usage(4, 40, 0, 0), OpusModel, <<>>),
             NoIds, <<>>, <<>>),
      [Record("system", At(131), NoMessage, NoIds, <<>>, <<>>)
          EXCEPT !.content = <<"Rate", "limit", "wait", "60", "minutes">>] }

\* The lines of a corpus with cost fields: assistant records of Saturday
\* 10:00 without identifiers, with the fields cost and cost_usd absent, 0 or
\* positive; sonnet and opus records without a cost; a record with a cost
\* and no tokens.
CostRecord(usage, model, cost, cost_usd) ==
    [Record("assistant", At(130), Message(<<>>, usage, model, <<>>),
            NoIds, <<>>, <<>>)
        EXCEPT !.cost = cost, !.cost_usd = cost_usd]

ERecords ==
    {CostRecord(Usage(1, 2, 4, 8), SonnetModel, c[1], c[2]) :
        c \in {<<None, None>>, <<0, None>>, <<7, None>>,
               <<None, 9>>, <<0, 9>>, <<7, 9>>}}
    \cup {CostRecord(Usage(16, 0, 0, 64), OpusModel, c, None) : c \in {None, 7}}
    \cup { CostRecord(Usage(1, 2, 4, 0), OpusModel, None, None),
           CostRecord(<<>>, SonnetModel, 7, None) }

\* The lines of a corpus with several token sources: records of Saturday
\* 10:00 without identifiers, of the kinds assistant and user, whose nested
\* usage, top-level usage and own counters are absent, hold cache counters
\* alone, an output count alone, or all four counters; one whose message is
\* not an object.
SourceRecord(type, nested, top, own) ==
    [Record(type, At(130), Message(<<>>, nested, <<>>, <<>>), NoIds, top, <<>>)
        EXCEPT !.own = own]

NestedCounts == Usage(1, 2, 4, 8)
TopCounts == Usage(16, 32, 64, 128)
OwnCounts == Usage(256, 512, 1024, 2048)
CacheOnly == Usage(0, 0, 3, 5)
OutputOnly == Usage(0, 7, 0, 0)

XRecords ==
    UNION {
        { SourceRecord(type, NestedCounts, TopCounts, OwnCounts),
          SourceRecord(type, CacheOnly, TopCounts, OwnCounts),
          SourceRecord(type, OutputOnly, CacheOnly, OwnCounts),
          SourceRecord(type, CacheOnly, OutputOnly, <<>>) }
        : type \in {"assistant", "user"}}
    \cup { SourceRecord("assistant", CacheOnly, CacheOnly, OwnCounts),
           SourceRecord("user", <<>>, <<>>, <<>>),
           SourceRecord("assistant", CacheOnly, CacheOnly, CacheOnly),
           [SourceRecord("assistant", <<>>, TopCounts, <<>>)
               EXCEPT !.message = NotADictMessage] }

SystemRecord(ts, content) ==
    [Record("system", ts, NoMessage, NoIds, <<>>, <<>>) EXCEPT !.content = content]

\* A user record whose message holds one tool_result item with one text.
ToolResultRecord(ts, text) ==
    Record("user", ts,
           Message(<<>>, <<>>, <<>>,
                   << [type |-> "tool_result", content |-> <<text>>] >>),
           NoIds, <<>>, <<>>)

\* A corpus with limit messages: a usage record of Saturday 10:00, which
\* opens the block from 10:00 to 15:00; system records of 11:00 (wait 120
\* minutes), of 10:00 (wait 60 minutes), of 10:00 without a wait, and of
\* 11:00 with a wait of 20 digits; a tool result of 12:00 that names an
\* epoch.
LRecords ==
    { Record("assistant", At(130),
             Message(<<>>, Usage(4, 20, 0, 0), OpusModel, <<>>),
             NoIds, <<>>, <<>>),
      SystemRecord(At(131), <<"Rate", "limit", "wait", "120", "minutes">>),
      SystemRecord(At(130), <<"limit", "Wait", "60", "Minutes">>),
      SystemRecord(At(130), <<"rate", "limit">>),
      SystemRecord(At(131),
                   <<"limit", "wait", "99999999999999999999", "minutes">>),
      ToolResultRecord(At(132), <<"limit", "reached", "|", "E140">>) }

\* A corpus with limit messages and several blocks: usage records of
\* Saturday 00:00, 05:00, 08:00 and 10:00; system records that announce a
\* limit at 01:00 and at 10:00.
GRecords ==
    {Record("assistant", At(h),
            Message(<<>>, Usage(4, 20, 0, 0), OpusModel, <<>>),
            NoIds, <<>>, <<>>) : h \in {120, 125, 128, 130}}
    \cup {SystemRecord(At(h), <<"rate", "limit">>) : h \in {121, 130}}

\* Blocks for the percentile estimator: a gap, an active block, and
\* completed blocks with no output, with a small output, and with an output
\* that reaches 95% of the lowest plan limit.
PBlock(gap, active, out, cost) ==
    [SessionBlock(<<"block", 0>>, 0, session_duration, gap) EXCEPT
        !.is_active = active,
        !.token_counts = [@ EXCEPT !.output_tokens = out],
        !.cost_usd = cost]

PBlocks ==
    { PBlock(TRUE, FALSE, 0, 0), PBlock(FALSE, TRUE, 20000, 5),
      PBlock(FALSE, FALSE, 0, 0), PBlock(FALSE, FALSE, 50, 3),
      PBlock(FALSE, FALSE, 18050, 5) }

Tens == [i \in 1..10 |-> 10 * i]

ValueLists ==
    {Tens, [i \in 1..10 |-> 10 * (11 - i)]}
    \cup UNION {[1..n -> {10, 20, 100}] : n \in 1..3}

\* Every tick from Monday 00:00 on, for MaxDays days.
Instants == 0..At(24 * MaxDays)

SystemContents ==
    { <<"Rate", "limit", "wait", "60", "minutes">>,
      <<"limit", "Wait", "120", "minute">>,
      <<"limit", "wait", "60", "minutes", "wait", "120", "minutes">>,
      <<"rate", "limit">>,
      <<"limit", "wait", "soon">>,
      <<"please", "wait", "60", "minutes">>,
      <<"limit", "wait", "99999999999999999999", "minutes">>,
      <<>> }

ToolTexts ==
    { <<"limit", "reached", "|", "E140">>,
      <<"Limit", "Reached", "|", "E140">>,
      <<"limit", "reached">>,
      <<"limit", "reached", "|", "E999999999999">>,
      <<"limit", "reached", "|", "E99999999999999999999">>,
      <<"no", "problem">> }

\* The records limit detection is tried on: every kind, with and without a
\* timestamp; a system record whose content is not a string; user records
\* whose message is absent, is not an object, holds a text item that is not
\* a tool result, or holds two tool results.
DRecords ==
    UNION {
        {SystemRecord(ts, c) : c \in SystemContents}
        \cup {[SystemRecord(ts, <<>>) EXCEPT !.content_is_str = FALSE]}
        \cup {ToolResultRecord(ts, t) : t \in ToolTexts}
        \cup { Record("user", ts, NoMessage, NoIds, <<>>, <<>>),
               Record("user", ts, NotADictMessage, NoIds, <<>>, <<>>),
               Record("user", ts,
                      Message(<<>>, <<>>, <<>>,
                              << [type |-> "text",
                                  content |-> << <<"limit", "reached">> >>] >>),
                      NoIds, <<>>, <<>>),
               Record("user", ts,
                      Message(<<>>, <<>>, <<>>,
                              << [type |-> "tool_result",
                                  content |-> << <<"no", "problem">>,
                                                 <<"limit", "reached">> >>],
                                 [type |-> "tool_result",
                                  content |-> << <<"limit", "reached", "|",
                                                   "E140">> >>] >>),
                      NoIds, <<>>, <<>>),
               Record("assistant", ts, NoMessage, NoIds, <<>>, <<>>) }
        : ts \in {None, At(131)}}

\* The calls of the percentile estimator on a list of blocks.
P90Calls(bs) ==
    {[fn |-> "compute_p90_output_limit", blocks |-> bs, min_limit |-> m] :
        m \in {0, 19000}}
    \cup {[fn |-> "compute_p90_cost_limit", blocks |-> bs, min_limit |-> 4,
           buffer |-> 12]}

\* The other calls of functions on their own.
Calls ==
    {[fn |-> "_linear_interpolation_p90", values |-> vs, min_val |-> m] :
        vs \in ValueLists, m \in {0, 95}}
    \cup {[fn |-> "_linear_interpolation_p90_float", values |-> vs] :
            vs \in ValueLists}
    \cup {[fn |-> "weekly_reset"]}
    \cup {[fn |-> "_detect_single", raw |-> r] : r \in DRecords}

\* The lines of a transcript: assistant records of Saturday 10:00 with an
\* output count of 0, 50 or 120 and either no identifier or the identifiers
\* (a, b:c) or (a:b, c); one of Monday 05:00; one without a timestamp; one
\* whose message is not an object; a user record.
TLine(ts, mid, rid, out) ==
    Record("assistant", ts,
           Message(mid, IF out = 0 THEN <<>> ELSE Usage(0, out, 0, 0),
                   SonnetModel, <<>>),
           RequestId(rid), <<>>, <<>>)

TIds == { << <<>>, <<>> >>,
          << <<"a">>, <<"b", ":", "c">> >>,
          << <<"a", ":", "b">>, <<"c">> >> }

TRecords ==
    {TLine(At(130), ids[1], ids[2], out) : ids \in TIds, out \in {0, 50, 120}}
    \cup { TLine(At(5), <<"a">>, <<"b", ":", "c">>, 50),
           TLine(None, <<>>, <<>>, 50),
           [TLine(At(130), <<>>, <<>>, 50) EXCEPT !.message = NotADictMessage],
           [TLine(At(130), <<>>, <<>>, 50) EXCEPT !.type = "user"] }

Sinces == {None, At(64)}

\* The transcripts compute_quota reads; the last one holds more output
\* tokens than the pro plan allows a session.
QTranscripts ==
    { <<>>,
      << TLine(At(130), <<"a">>, <<"b">>, 50) >>,
      << TLine(At(130), <<"a">>, <<"b">>, 38000) >>,
      << TLine(At(5), <<"a">>, <<"b">>, 50),
         TLine(At(130), <<"a">>, <<"b">>, 120) >> }

(***************************************************************************)
(* load_usage_entries                                                      *)
(***************************************************************************)
\* Lines 280-287: the clock is read for the cutoff.
LoadStart ==
    /\ pc = "start"
    /\ \E t \in Nows :
        /\ t >= now
        /\ now' = t
        /\ cutoff' = t - At(hours_back)
    /\ pc' = "load"
    /\ UNCHANGED <<corpus, call, ret, raw_entries, seen, entries, idx, blocks, current,
                   since, lines, prev_addr, last_out, session_output, result>>

\* One decoded line of one file.
LoadLine ==
    /\ pc = "load"
    /\ Len(raw_entries) < MaxRecords
    /\ \E data \in corpus :
        LET st == load_line([raw_entries |-> raw_entries, seen |-> seen,
                             entries |-> entries], data, cutoff)
        IN  /\ raw_entries' = st.raw_entries
            /\ seen' = st.seen
            /\ entries' = st.entries
    /\ UNCHANGED <<corpus, call, ret, pc, now, cutoff, idx, blocks, current,
                   since, lines, prev_addr, last_out, session_output, result>>

\* The end of the last file: the entries are sorted and returned, and
\* compute_quota returns an empty QuotaData if there is none.
LoadFinish ==
    /\ pc = "load"
    /\ entries' = sort_by_timestamp(entries)
    /\ pc' = IF entries = <<>> THEN "done" ELSE "transform"
    /\ UNCHANGED <<corpus, call, ret, now, cutoff, raw_entries, seen, idx, blocks, current,
                   since, lines, prev_addr, last_out, session_output, result>>

(***************************************************************************)
(* transform_to_blocks                                                     *)
(***************************************************************************)
TransformStep ==
    /\ pc = "transform"
    /\ idx <= Len(entries)
    /\ LET r == transform_body(blocks, current, entries[idx])
       IN  /\ blocks' = r.blocks
           /\ current' = r.current
    /\ idx' = idx + 1
    /\ UNCHANGED <<corpus, call, ret, pc, now, cutoff, raw_entries, seen, entries,
                   since, lines, prev_addr, last_out, session_output, result>>

\* The end of the loop: the trailing block is finalized and appended, and
\* _mark_active reads the clock.  An empty list is returned at once.
TransformFinish ==
    /\ pc = "transform"
    /\ idx > Len(entries)
    /\ IF entries = <<>>
       THEN UNCHANGED <<now, blocks>>
       ELSE \E t \in Nows :
              /\ t >= now
              /\ now' = t
              /\ blocks' = _mark_active(
                    IF current # <<>>
                    THEN Append(blocks, _finalize(current[1]))
                    ELSE blocks, t)
    /\ current' = <<>>
    /\ pc' = "detect"
    /\ UNCHANGED <<corpus, call, ret, cutoff, raw_entries, seen, entries, idx,
                   since, lines, prev_addr, last_out, session_output, result>>

(***************************************************************************)
(* read_transcript_output_tokens                                           *)
(***************************************************************************)
\* One decoded line of the transcript.
TranscriptLine ==
    /\ pc = "transcript"
    /\ Len(lines) < MaxLines
    /\ \E data \in TRecords, addr \in (1..NumAddresses) \ {prev_addr} :
        /\ last_out' = transcript_line(last_out, data, addr, since)
        /\ lines' = Append(lines, data)
        /\ prev_addr' = addr
    /\ UNCHANGED <<corpus, call, ret, pc, now, cutoff, raw_entries, seen, entries, idx, blocks,
                   current, since, session_output, result>>

\* The end of the file.
TranscriptFinish ==
    /\ pc = "transcript"
    /\ session_output' = last_out_total(last_out)
    /\ pc' = "read"
    /\ UNCHANGED <<corpus, call, ret, now, cutoff, raw_entries, seen, entries, idx, blocks,
                   current, since, lines, prev_addr, last_out, result>>

(***************************************************************************)
(* compute_quota                                                           *)
(***************************************************************************)
\* Lines 106-113.  An exception of detect_limits leaves compute_quota.
Detect ==
    /\ pc = "detect"
    /\ LET limit_infos == IF raw_entries # <<>>
                          THEN detect_limits(raw_entries) ELSE <<>>
       IN  IF Raises(limit_infos)
           THEN pc' = "raised" /\ UNCHANGED blocks
           ELSE /\ blocks' = IF raw_entries # <<>>
                             THEN attach_limits(blocks, limit_infos)
                             ELSE blocks
                /\ pc' = "session"
    /\ UNCHANGED <<corpus, call, ret, now, cutoff, raw_entries, seen, entries,
                   idx, current, since, lines, prev_addr, last_out,
                   session_output, result>>

\* Lines 115-172: the active block is found, the transcript is read from
\* the active block's start, and the session row is appended.  The plan
\* comes from the environment.  A missing path or file gives 0, as an empty
\* transcript does.  The locals of read_transcript_output_tokens are gone
\* when it returns.
Session ==
    /\ pc = "session"
    /\ \E plan \in DOMAIN PLAN_LIMITS, tr \in QTranscripts :
        \E addrs \in AddressLists(Len(tr)) :
            LET active == find_active(blocks)
                snc == IF active # <<>> THEN active[1].start_time ELSE None
                lo == transcript_lines(EmptyLastOut, tr, addrs, snc)
            IN  /\ session_output' = last_out_total(lo)
                /\ result' = << session_row(active, last_out_total(lo),
                                            PLAN_LIMITS[plan].output_limit) >>
    /\ pc' = "rows"
    /\ UNCHANGED <<corpus, call, ret, now, cutoff, raw_entries, seen, entries, idx, blocks,
                   current, since, lines, prev_addr, last_out>>

\* Lines 174-238: the clock is read, and the two weekly rows and the monthly
\* row are appended.
Rows ==
    /\ pc = "rows"
    /\ \E t \in Nows :
        /\ t >= now
        /\ now' = t
        /\ result' = result \o aggregate_rows(entries, t)
    /\ pc' = "done"
    /\ UNCHANGED <<corpus, call, ret, cutoff, raw_entries, seen, entries, idx, blocks, current,
                   since, lines, prev_addr, last_out, session_output>>

(***************************************************************************)
(* Functions called on their own.                                          *)
(***************************************************************************)
P90OutputLimit ==
    /\ pc = "call"
    /\ call.fn = "compute_p90_output_limit"
    /\ ret' = compute_p90_output_limit(call.blocks, call.min_limit)
    /\ pc' = "return"
    /\ UNCHANGED <<corpus, call, now, cutoff, raw_entries, seen, entries, idx,
                   blocks, current, since, lines, prev_addr, last_out,
                   session_output, result>>

P90CostLimit ==
    /\ pc = "call"
    /\ call.fn = "compute_p90_cost_limit"
    /\ ret' = compute_p90_cost_limit(call.blocks, call.min_limit, call.buffer)
    /\ pc' = "return"
    /\ UNCHANGED <<corpus, call, now, cutoff, raw_entries, seen, entries, idx,
                   blocks, current, since, lines, prev_addr, last_out,
                   session_output, result>>

LinearInterpolationP90 ==
    /\ pc = "call"
    /\ call.fn = "_linear_interpolation_p90"
    /\ ret' = _linear_interpolation_p90(call.values, call.min_val)
    /\ pc' = "return"
    /\ UNCHANGED <<corpus, call, now, cutoff, raw_entries, seen, entries, idx,
                   blocks, current, since, lines, prev_addr, last_out,
                   session_output, result>>

LinearInterpolationP90Float ==
    /\ pc = "call"
    /\ call.fn = "_linear_interpolation_p90_float"
    /\ ret' = _linear_interpolation_p90_float(call.values)
    /\ pc' = "return"
    /\ UNCHANGED <<corpus, call, now, cutoff, raw_entries, seen, entries, idx,
                   blocks, current, since, lines, prev_addr, last_out,
                   session_output, result>>

\* _last_weekly_reset and _next_weekly_reset for one reading of the clock.
WeeklyReset ==
    /\ pc = "call"
    /\ call.fn = "weekly_reset"
    /\ ret' = [last |-> _last_weekly_reset(now),
               next |-> _next_weekly_reset(now)]
    /\ pc' = "return"
    /\ UNCHANGED <<corpus, call, now, cutoff, raw_entries, seen, entries, idx,
                   blocks, current, since, lines, prev_addr, last_out,
                   session_output, result>>

DetectSingle ==
    /\ pc = "call"
    /\ call.fn = "_detect_single"
    /\ ret' = _detect_single(call.raw)
    /\ pc' = "return"
    /\ UNCHANGED <<corpus, call, now, cutoff, raw_entries, seen, entries, idx,
                   blocks, current, since, lines, prev_addr, last_out,
                   session_output, result>>

(***************************************************************************)
(* Specifications.                                                         *)
(***************************************************************************)
Idle ==
    /\ call = NoCall
    /\ ret = None
    /\ now = 0
    /\ cutoff = None
    /\ raw_entries = <<>>
    /\ seen = {}
    /\ entries = <<>>
    /\ idx = 1
    /\ blocks = <<>>
    /\ current = <<>>
    /\ since = None
    /\ lines = <<>>
    /\ prev_addr = None
    /\ last_out = EmptyLastOut
    /\ session_output = 0
    /\ result = <<>>

\* compute_quota, from its call to its return.
Init == pc = "start" /\ corpus = QRecords /\ Idle

Next ==
    \/ LoadStart
    \/ LoadLine
    \/ LoadFinish
    \/ TransformStep
    \/ TransformFinish
    \/ Detect
    \/ Session
    \/ Rows

Spec == Init /\ [][Next]_vars

\* The percentile estimator, the weekly boundaries and the detection of one
\* record, each called on its own.
InitF ==
    /\ pc = "call"
    /\ corpus = {}
    /\ \/ \E n \in 0..MaxBlocks :
            \E bs \in [1..n -> PBlocks] : call \in P90Calls(bs)
       \/ call \in Calls
    /\ ret = None
    /\ now \in (IF call.fn = "weekly_reset" THEN Instants ELSE {0})
    /\ cutoff = None
    /\ raw_entries = <<>>
    /\ seen = {}
    /\ entries = <<>>
    /\ idx = 1
    /\ blocks = <<>>
    /\ current = <<>>
    /\ since = None
    /\ lines = <<>>
    /\ prev_addr = None
    /\ last_out = EmptyLastOut
    /\ session_output = 0
    /\ result = <<>>

NextF ==
    \/ P90OutputLimit
    \/ P90CostLimit
    \/ LinearInterpolationP90
    \/ LinearInterpolationP90Float
    \/ WeeklyReset
    \/ DetectSingle

SpecF == InitF /\ [][NextF]_vars

\* load_usage_entries on a corpus with cost fields.
InitE == pc = "start" /\ corpus = ERecords /\ Idle

NextE == LoadStart \/ LoadLine \/ LoadFinish

SpecE == InitE /\ [][NextE]_vars

\* load_usage_entries on a corpus with several token sources.
InitX == pc = "start" /\ corpus = XRecords /\ Idle

SpecX == InitX /\ [][NextE]_vars

\* compute_quota on a corpus with limit messages.
InitL == pc = "start" /\ corpus = LRecords /\ Idle

SpecL == InitL /\ [][Next]_vars

\* compute_quota on a corpus with limit messages and several blocks.
InitG == pc = "start" /\ corpus = GRecords /\ Idle

SpecG == InitG /\ [][Next]_vars

\* transform_to_blocks on any time-sorted list of events.
InitW ==
    /\ corpus = {}
    /\ call = NoCall
    /\ ret = None
    /\ pc = "transform"
    /\ now = 0
    /\ cutoff = None
    /\ raw_entries = <<>>
    /\ seen = {}
    /\ entries \in EventLists
    /\ idx = 1
    /\ blocks = <<>>
    /\ current = <<>>
    /\ since = None
    /\ lines = <<>>
    /\ prev_addr = None
    /\ last_out = EmptyLastOut
    /\ session_output = 0
    /\ result = <<>>

NextW == TransformStep \/ TransformFinish

SpecW == InitW /\ [][NextW]_vars

\* transform_to_blocks on time-sorted lists of events of several models.
InitM ==
    /\ corpus = {}
    /\ call = NoCall
    /\ ret = None
    /\ pc = "transform"
    /\ now = 0
    /\ cutoff = None
    /\ raw_entries = <<>>
    /\ seen = {}
    /\ entries \in ModelEventLists
    /\ idx = 1
    /\ blocks = <<>>
    /\ current = <<>>
    /\ since = None
    /\ lines = <<>>
    /\ prev_addr = None
    /\ last_out = EmptyLastOut
    /\ session_output = 0
    /\ result = <<>>

SpecM == InitM /\ [][NextW]_vars

\* read_transcript_output_tokens on any transcript, with or without since.
InitT ==
    /\ corpus = {}
    /\ call = NoCall
    /\ ret = None
    /\ pc = "transcript"
    /\ now = 0
    /\ cutoff = None
    /\ raw_entries = <<>>
    /\ seen = {}
    /\ entries = <<>>
    /\ idx = 1
    /\ blocks = <<>>
    /\ current = <<>>
    /\ since \in Sinces
    /\ lines = <<>>
    /\ prev_addr = None
    /\ last_out = EmptyLastOut
    /\ session_output = 0
    /\ result = <<>>

NextT == TranscriptLine \/ TranscriptFinish

SpecT == InitT /\ [][NextT]_vars

(***************************************************************************)
(* Properties of transform_to_blocks.                                      *)
(***************************************************************************)
TransformDone == pc = "detect"

Floor(ts) == ts - (ts % TicksPerHour)

GapCount(bs) == Cardinality({i \in 1..Len(bs) : bs[i].is_gap})

UniqueAscending(es) ==
    \A i \in 1..(Len(es) - 1) : es[i].timestamp < es[i + 1].timestamp

\* C2 as stated: a non-empty list of events with unique ascending timestamps
\* whose last timestamp minus first timestamp is less than the window
\* duration gives exactly one block and no gap block.
C2_OneBlockWhenSpanBelowWindow ==
    (/\ TransformDone
     /\ entries # <<>>
     /\ UniqueAscending(entries)
     /\ Last(entries).timestamp - entries[1].timestamp < session_duration)
    => (Len(blocks) = 1 /\ GapCount(blocks) = 0)

\* C2 amended: a non-empty list of events with unique ascending timestamps
\* whose last timestamp is earlier than the first timestamp floored to the
\* hour plus the window duration gives exactly one block and no gap block.
C2_OneBlockWithinHourAlignedWindow ==
    (/\ TransformDone
     /\ entries # <<>>
     /\ UniqueAscending(entries)
     /\ Last(entries).timestamp < Floor(entries[1].timestamp) + session_duration)
    => (Len(blocks) = 1 /\ GapCount(blocks) = 0)

C2_Witness ==
    /\ TransformDone
    /\ Len(entries) = MaxEvents
    /\ UniqueAscending(entries)
    /\ entries[1].timestamp # Floor(entries[1].timestamp)
    /\ Last(entries).timestamp = Floor(entries[1].timestamp) + session_duration - 1
    /\ Len(blocks) = 1

LatestEndAfterNow(b, bs, t) ==
    /\ b.end_time > t
    /\ \A j \in 1..Len(bs) : bs[j].end_time > t => bs[j].end_time <= b.end_time

\* C3 as stated: at most one non-gap block is active, and it is the block
\* with the latest nominal end among the blocks whose nominal end exceeds now.
C3_AtMostOneActive ==
    TransformDone =>
        /\ Cardinality(ActiveIdx(blocks)) <= 1
        /\ \A i \in ActiveIdx(blocks) : LatestEndAfterNow(blocks[i], blocks, now)

\* C3 amended: the active blocks are exactly the non-gap blocks whose nominal
\* end exceeds now; there is at most one when no event is dated after now;
\* the block compute_quota selects as active, the last active one, has the
\* latest nominal end among the blocks whose nominal end exceeds now.
C3_ActiveIffEndAfterNow ==
    TransformDone =>
        /\ \A i \in 1..Len(blocks) :
              blocks[i].is_active <=> (~blocks[i].is_gap /\ blocks[i].end_time > now)
        /\ (\A k \in 1..Len(entries) : entries[k].timestamp <= now)
              => Cardinality(ActiveIdx(blocks)) <= 1
        /\ find_active(blocks) # <<>>
              => LatestEndAfterNow(find_active(blocks)[1], blocks, now)
        /\ (\E j \in 1..Len(blocks) : blocks[j].end_time > now)
              => find_active(blocks) # <<>>

C3_Witness ==
    /\ TransformDone
    /\ Cardinality(ActiveIdx(blocks)) = 1
    /\ Len(blocks) = 3
    /\ blocks[2].is_gap
    /\ blocks[3].is_active
    /\ \A k \in 1..Len(entries) : entries[k].timestamp <= now

Field(es, f) == [i \in 1..Len(es) |-> es[i][f]]

TokenFields ==
    {"input_tokens", "output_tokens", "cache_creation_tokens", "cache_read_tokens"}

\* C5: in every block returned, each of the four token counters is the sum
\* of that field over the block's events, and the event count is the number
\* of the block's events.
C5_TallyIsSumOfEvents ==
    TransformDone =>
        \A i \in 1..Len(blocks) :
            /\ \A f \in TokenFields :
                  blocks[i].token_counts[f] = SeqSum(Field(blocks[i].entries, f))
            /\ blocks[i].sent_messages_count = Len(blocks[i].entries)

C5_Witness ==
    /\ TransformDone
    /\ \E i \in 1..Len(blocks) :
          /\ Len(blocks[i].entries) = 2
          /\ blocks[i].entries[1].input_tokens # blocks[i].entries[2].input_tokens
          /\ blocks[i].token_counts.cache_creation_tokens
                # blocks[i].token_counts.cache_read_tokens

RECURSIVE ConcatEntries(_)
ConcatEntries(bs) ==
    IF bs = <<>> THEN <<>> ELSE Head(bs).entries \o ConcatEntries(Tail(bs))

\* C6: every input event is in exactly one non-gap block: the blocks' event
\* lists, concatenated in output order, are the input sequence, and gap
\* blocks hold no event.
C6_EventsPartitioned ==
    TransformDone =>
        /\ ConcatEntries(blocks) = entries
        /\ \A i \in 1..Len(blocks) : blocks[i].is_gap => blocks[i].entries = <<>>

C6_Witness ==
    /\ TransformDone
    /\ Len(entries) = MaxEvents
    /\ Len(blocks) = 3
    /\ blocks[2].is_gap
    /\ Len(blocks[1].entries) + Len(blocks[3].entries) = MaxEvents

(***************************************************************************)
(* Properties of read_transcript_output_tokens.                            *)
(***************************************************************************)
OutputOf(data) ==
    IF data.message.is_dict /\ data.message.usage # <<>>
    THEN data.message.usage[1].output_tokens ELSE 0

\* The lines that count: assistant records, not older than since, with a
\* positive output count in the usage of their message.
Counted ==
    {i \in 1..Len(lines) :
        /\ lines[i].type = "assistant"
        /\ since # None => (lines[i].timestamp # None /\ lines[i].timestamp >= since)
        /\ OutputOf(lines[i]) > 0}

PairOf(data) == << data.message.id, Or(data.requestId, data.request_id) >>

HasPair(data) == PairOf(data)[1] # <<>> /\ PairOf(data)[2] # <<>>

CountedPairs == {PairOf(lines[i]) : i \in {j \in Counted : HasPair(lines[j])}}

LastValueOf(pair) ==
    OutputOf(lines[SetMax({i \in Counted : HasPair(lines[i]) /\ PairOf(lines[i]) = pair})])

\* C7: the records that carry a message identifier and a request identifier
\* contribute, for each distinct (message id, request id) pair, the last
\* output count observed for the pair, and nothing else.
C7_LastValuePerPair ==
    pc \in {"transcript", "read"} =>
        FnSum(last_out.keyed) = FnSum([p \in CountedPairs |-> LastValueOf(p)])

\* C8: the records without a (message id, request id) key contribute the sum
\* of their output counts, none overwriting another.
C8_KeylessCountedIndividually ==
    pc \in {"transcript", "read"} =>
        FnSum(last_out.anon)
            = SeqSum([i \in 1..Len(lines) |->
                        IF i \in Counted /\ ~HasPair(lines[i])
                        THEN OutputOf(lines[i]) ELSE 0])

(***************************************************************************)
(* Properties of load_usage_entries and compute_quota.                     *)
(***************************************************************************)
HasKey(e) == e.message_id # <<>> /\ e.request_id # <<>>

\* A record that yields a usage event if it is not a duplicate: its
\* timestamp parses and is not before the cutoff, and its input or output
\* count is positive.
Qualifies(data) ==
    /\ data.timestamp # None
    /\ cutoff # None => data.timestamp >= cutoff
    /\ \E i \in 1..Len(token_sources(data)) :
          \/ token_sources(data)[i].input_tokens > 0
          \/ token_sources(data)[i].output_tokens > 0

RecordHasKey(data) == record_message_id(data) # <<>> /\ record_request_id(data) # <<>>

\* C9: no two usage events come from records with both identifiers and the
\* same identity key; every qualifying record that lacks an identifier has
\* its own usage event.
C9_DedupByIdentityKey ==
    /\ \A i, j \in 1..Len(entries) :
          (i < j /\ HasKey(entries[i]) /\ HasKey(entries[j]))
          => FormatKey(entries[i].message_id, entries[i].request_id)
                # FormatKey(entries[j].message_id, entries[j].request_id)
    /\ pc \in {"load", "transform"} =>
          Cardinality({i \in 1..Len(entries) : ~HasKey(entries[i])})
            = Cardinality({i \in 1..Len(raw_entries) :
                              ~RecordHasKey(raw_entries[i]) /\ Qualifies(raw_entries[i])})

C9_Witness ==
    /\ pc = "transform"
    /\ \E i, j \in 1..Len(raw_entries) :
          /\ i < j
          /\ RecordHasKey(raw_entries[i]) /\ Qualifies(raw_entries[i])
          /\ RecordHasKey(raw_entries[j]) /\ Qualifies(raw_entries[j])
          /\ raw_entries[i] # raw_entries[j]
          /\ _create_unique_hash(raw_entries[i]) = _create_unique_hash(raw_entries[j])
    /\ Cardinality({i \in 1..Len(entries) : HasKey(entries[i])}) = 1
    /\ Cardinality({i \in 1..Len(entries) : ~HasKey(entries[i])}) = 2

Labels(rows) == [i \in 1..Len(rows) |-> rows[i].label]

\* C1: every invocation of compute_quota returns the four rows session,
\* weekly all-model, weekly sonnet-only and monthly spend, also when the
\* corpus is empty or no record survives as a usage event.
C1_AlwaysFourRows ==
    pc = "done" =>
        Labels(result) = <<"Session", "Current week", "Week (Sonnet)", "Extra usage">>

\* The usage events of the corpus, deduplicated, whatever their age.
CorpusEvents ==
    load_lines([raw_entries |-> <<>>, seen |-> {}, entries |-> <<>>],
               raw_entries, None).entries

\* C10: the used value of the "Current week" row is the sum of the output
\* tokens of all deduplicated usage events of the corpus that are at or
\* after the most recent weekly reset.
C10_WeeklyUsedCoversWeek ==
    (pc = "done" /\ Len(result) = 4) =>
        result[2].used
            = SeqSum([i \in 1..Len(CorpusEvents) |->
                        IF CorpusEvents[i].timestamp >= _last_weekly_reset(now)
                        THEN CorpusEvents[i].output_tokens ELSE 0])

(***************************************************************************)
(* Properties of the summary rows.                                         *)
(***************************************************************************)
\* C11: every row compute_quota produces has a percentage between 0 and 100
\* inclusive (pct is in tenths of a percent).
C11_PctWithinRange ==
    \A i \in 1..Len(result) : result[i].pct >= 0 /\ result[i].pct <= 1000

SessionRowDone == pc \in {"rows", "done"}

\* The signals of a block that expose a reset instant.
WithReset(b) ==
    {i \in 1..Len(b.limit_messages) : b.limit_messages[i].reset_time # None}

\* C12: when the active block carries signals, the session row's reset
\* instant is that of the signal with the earliest timestamp among the
\* signals exposing a reset instant; if none exposes one, it is the block's
\* nominal end.
C12_ResetOfEarliestSignal ==
    SessionRowDone /\ find_active(blocks) # <<>> =>
        LET b == find_active(blocks)[1]
        IN  b.limit_messages # <<>> =>
                IF WithReset(b) = {} THEN result[1].reset_at = b.end_time
                ELSE \E i \in WithReset(b) :
                        /\ \A j \in WithReset(b) :
                              b.limit_messages[i].timestamp
                                  <= b.limit_messages[j].timestamp
                        /\ result[1].reset_at = b.limit_messages[i].reset_time

(***************************************************************************)
(* Properties of the cost of an event.                                     *)
(***************************************************************************)
\* The records met so far that yield a usage event, none having a key; while
\* the files are read, entries holds their events in the same order.
Survivors == SelectSeq(raw_entries, Qualifies)

ExplicitCosts(data) == {data.cost, data.cost_usd} \ {None}

\* C13: the event of a record with an explicit numeric cost field has that
\* explicit value as its cost.
C13_ExplicitCostIsKept ==
    pc = "load" /\ Len(Survivors) = Len(entries) =>
        \A i \in 1..Len(entries) :
            ExplicitCosts(Survivors[i]) # {} =>
                entries[i].cost_usd \in ExplicitCosts(Survivors[i])

\* C14: the event of a record with token counts and no explicit cost field
\* costs (input x 3.0 + output x 15.0 + cache_creation x 3.75) / 1,000,000
\* USD, which is input x 300 + output x 1500 + cache_creation x 375 in units
\* of 10^-8 USD, whatever its model tag and its cache-read count.
C14_FlatSonnetEstimate ==
    pc = "load" /\ Len(Survivors) = Len(entries) =>
        \A i \in 1..Len(entries) :
            ExplicitCosts(Survivors[i]) = {} =>
                entries[i].cost_usd
                    = entries[i].input_tokens * 300
                      + entries[i].output_tokens * 1500
                      + entries[i].cache_creation_tokens * 375

C14_Witness ==
    /\ pc = "load"
    /\ Len(Survivors) = Len(entries)
    /\ \E i, j \in 1..Len(entries) :
          /\ ExplicitCosts(Survivors[i]) = {}
          /\ ExplicitCosts(Survivors[j]) = {}
          /\ model_family(entries[i].model) = "opus"
          /\ entries[i].cache_read_tokens > 0
          /\ model_family(entries[j].model) = "sonnet"
          /\ entries[i].cost_usd > 0
          /\ entries[j].cost_usd > 0

(***************************************************************************)
(* Properties of the functions called on their own.                        *)
(***************************************************************************)
Returned(fn) == pc = "return" /\ call.fn = fn

CompletedCount(bs) ==
    Cardinality({i \in 1..Len(bs) : ~bs[i].is_gap /\ ~bs[i].is_active})

\* C15: compute_p90_output_limit and compute_p90_cost_limit return None
\* whenever fewer than 5 of the blocks are neither a gap nor active, however
\* many gap or active blocks there are.
C15_NoEstimateBelowFive ==
    (Returned("compute_p90_output_limit") \/ Returned("compute_p90_cost_limit"))
    => (CompletedCount(call.blocks) < 5 => ret = None)

C15_Witness ==
    /\ Returned("compute_p90_output_limit")
    /\ Len(call.blocks) >= 6
    /\ CompletedCount(call.blocks) = 4
    /\ \E i \in 1..Len(call.blocks) : call.blocks[i].is_gap
    /\ \E i \in 1..Len(call.blocks) : call.blocks[i].is_active
    /\ ret = None

\* C16: the linear-interpolation P90 of 10, 20, ..., 100 is 91, in the
\* integer variant with a minimum of 0 and in the real-valued variant
\* (whose result is in tenths).
C16_P90OfTensIs91 ==
    /\ Returned("_linear_interpolation_p90")
          => (call.values = Tens /\ call.min_val = 0 => ret = 91)
    /\ Returned("_linear_interpolation_p90_float")
          => (call.values = Tens => ret = 910)

C16_Witness ==
    /\ Returned("_linear_interpolation_p90")
    /\ call.values = Tens
    /\ call.min_val = 0
    /\ ret = 91

IsMondayFour(t) == t % At(24 * 7) = At(4)

\* C17: for every instant now, the last reset is the most recent Monday
\* 04:00 at or before now, the next reset is the first Monday 04:00 after
\* now, and the two are exactly 7 days apart.
C17_WeeklyBoundaries ==
    Returned("weekly_reset") =>
        /\ IsMondayFour(ret.last)
        /\ ret.last <= now
        /\ now - ret.last < At(24 * 7)
        /\ IsMondayFour(ret.next)
        /\ ret.next > now
        /\ ret.next - now <= At(24 * 7)
        /\ ret.next - ret.last = At(24 * 7)

\* The second Monday, before 04:00.
C17_Witness ==
    /\ Returned("weekly_reset")
    /\ now >= At(24 * 7)
    /\ weekday(now) = 0
    /\ hour(now) < 4
    /\ ret.last = At(4)
    /\ ret.next = At(24 * 7 + 4)

HasKeyword(raw) == Contains(raw.content, "limit") \/ Contains(raw.content, "rate")

\* The primary match of a record: the keyword and a parseable timestamp.
PrimaryMatch(raw) ==
    /\ raw.timestamp # None
    /\ \/ raw.type = "system" /\ raw.content_is_str /\ HasKeyword(raw)
       \/ /\ raw.type = "user"
          /\ \E i \in 1..Len(raw.message.content) :
                /\ raw.message.content[i].type = "tool_result"
                /\ \E j \in 1..Len(raw.message.content[i].content) :
                      HasLimitReached(raw.message.content[i].content[j])

\* The texts of the items of a message.
TextsOf(message) ==
    UNION {{message.content[i].content[j] :
                j \in 1..Len(message.content[i].content)} :
            i \in 1..Len(message.content)}

\* The runs of digits that do not convert to an instant.
Unconvertible ==
    {"99999999999999999999", "E999999999999", "E99999999999999999999"}

\* C18: limit detection on one record ends with no signal or one signal and
\* never with an error; when the primary match succeeds the signal is
\* emitted, without a reset instant if the digits do not convert.
C18_DetectionNeverErrors ==
    Returned("_detect_single") =>
        /\ ~Raises(ret)
        /\ Len(ret) <= 1
        /\ PrimaryMatch(call.raw) => Len(ret) = 1
        /\ \A text \in {call.raw.content} \cup TextsOf(call.raw.message) :
              (Len(ret) = 1 /\ \E k \in 1..Len(text) : text[k] \in Unconvertible)
              => ret[1].reset_time = None

\* The places of "wait N minute(s)" in a content.
WaitPlaces(content) ==
    {i \in 1..(Len(content) - 2) :
        /\ lower(content[i]) = "wait"
        /\ content[i + 1] \in {"60", "120", "99999999999999999999"}
        /\ lower(content[i + 2]) \in {"minute", "minutes"}}

\* C19: a system record with a string content holding the keyword, and a
\* parseable timestamp T, yields one system signal; with the pattern "wait N
\* minute(s)" its wait-minutes is N and its reset instant T + N minutes,
\* without it both are absent.
C19_SystemWaitMinutes ==
    (Returned("_detect_single") /\ call.raw.type = "system"
        /\ call.raw.content_is_str /\ HasKeyword(call.raw)
        /\ call.raw.timestamp # None) =>
        /\ ~Raises(ret)
        /\ Len(ret) = 1
        /\ ret[1].type = "system_limit"
        /\ IF WaitPlaces(call.raw.content) = {}
           THEN ret[1].wait_minutes = None /\ ret[1].reset_time = None
           ELSE LET n == call.raw.content[SetMin(WaitPlaces(call.raw.content)) + 1]
                IN  /\ n = "60" => ret[1].wait_minutes = 60
                    /\ n = "120" => ret[1].wait_minutes = 120
                    /\ (ret[1].reset_time - call.raw.timestamp) * 60
                          = ret[1].wait_minutes * TicksPerHour

(***************************************************************************)
(* The rule of the windower.                                               *)
(***************************************************************************)
\* C20: for each event of the time-sorted sequence, the windower opens a
\* new block exactly when there is no current block, or the event is at or
\* after the current block's nominal end, or at least one window duration
\* after the current block's last event; the new block starts at the
\* event's timestamp floored to the hour and ends one window duration
\* later; otherwise the event joins the current block and no block is
\* opened.
C20_OpenRule ==
    [][(pc = "transform" /\ idx <= Len(entries)) =>
        LET e == entries[idx]
            opens ==
                \/ current = <<>>
                \/ e.timestamp >= current[1].end_time
                \/ e.timestamp - Last(current[1].entries).timestamp
                      >= session_duration
        IN  IF opens
            THEN /\ current'[1].entries = <<e>>
                 /\ current'[1].start_time = Floor(e.timestamp)
                 /\ current'[1].end_time = Floor(e.timestamp) + session_duration
                 /\ current # <<>> => Len(blocks') > Len(blocks)
            ELSE /\ current'[1].entries = Append(current[1].entries, e)
                 /\ current'[1].start_time = current[1].start_time
                 /\ current'[1].end_time = current[1].end_time
                 /\ blocks' = blocks]_vars

\* Two events in a first block and a third, off the hour, in a second.
C20_Witness ==
    /\ pc = "transform"
    /\ Len(entries) = 3
    /\ idx = 4
    /\ Len(blocks) = 1
    /\ Len(blocks[1].entries) = 2
    /\ current # <<>>
    /\ entries[3].timestamp % TicksPerHour # 0
    /\ current[1].start_time = Floor(entries[3].timestamp)

(***************************************************************************)
(* Properties of the raw list.                                             *)
(***************************************************************************)
\* C21: the raw list of load_usage_entries holds every decoded line once, in
\* scan order: each line scanned is appended to it as it is, whether or not
\* it is a duplicate, has a timestamp, is older than the cutoff or has token
\* usage, and nothing else changes the list.
C21_RawListHoldsEveryLine ==
    [][IF pc = "load" /\ pc' = "load"
       THEN \E data \in corpus : raw_entries' = Append(raw_entries, data)
       ELSE raw_entries' = raw_entries]_vars

\* Three lines scanned: a record that yields an event, a record with the
\* same key, and a record without token usage or without a timestamp.
C21_Witness ==
    /\ pc = "transform"
    /\ Len(raw_entries) = 3
    /\ Len(entries) = 1
    /\ \E i, j \in 1..3 :
          /\ i < j
          /\ RecordHasKey(raw_entries[i])
          /\ Qualifies(raw_entries[i])
          /\ Qualifies(raw_entries[j])
          /\ _create_unique_hash(raw_entries[i]) = _create_unique_hash(raw_entries[j])
    /\ \E k \in 1..3 : ~Qualifies(raw_entries[k])

(***************************************************************************)
(* Properties of the token extraction.                                     *)
(***************************************************************************)
\* The nested usage of the message, the top-level usage and the record's
\* own counters, each a list of zero or one source.
NestedUsage(data) == IF data.message.is_dict THEN data.message.usage ELSE <<>>

TopUsage(data) == data.usage

OwnUsage(data) == data.own

OrderedSources(data) ==
    IF data.type = "assistant"
    THEN NestedUsage(data) \o TopUsage(data) \o OwnUsage(data)
    ELSE TopUsage(data) \o NestedUsage(data) \o OwnUsage(data)

IsPositive(src) == src.input_tokens > 0 \/ src.output_tokens > 0

\* The four counters of the first source with a positive input or output
\* count, all zero if there is none.
FirstPositive(data) ==
    LET srcs == SelectSeq(OrderedSources(data), IsPositive)
    IN  IF srcs = <<>> THEN TokenCounts
        ELSE [f \in TokenFields |-> srcs[1][f]]

HasPositive(data) == SelectSeq(OrderedSources(data), IsPositive) # <<>>

\* C22: the sources are tried in the order nested usage, top-level usage,
\* record for an assistant record and top-level usage, nested usage, record
\* for any other; the four counters of a record's event are those of the
\* first source with a positive input or output count, none taken from
\* another source; a record with no such source has all counters zero and
\* yields no event.
C22_FirstPositiveSourceWins ==
    pc = "load" =>
        LET yielding == SelectSeq(raw_entries, HasPositive)
        IN  /\ Len(entries) = Len(yielding)
            /\ \A i \in 1..Len(yielding) :
                  /\ Len(entries) >= i
                  /\ \A f \in TokenFields :
                        entries[i][f] = FirstPositive(yielding[i])[f]
            /\ \A i \in 1..Len(raw_entries) :
                  _extract_entry_tokens(raw_entries[i])
                      = FirstPositive(raw_entries[i])

\* An assistant record and a user record with the same three sources, whose
\* events differ, and a record that yields none.
C22_Witness ==
    /\ pc = "load"
    /\ Len(raw_entries) = 3
    /\ raw_entries[1] = SourceRecord("assistant", NestedCounts, TopCounts, OwnCounts)
    /\ raw_entries[2] = SourceRecord("assistant", CacheOnly, CacheOnly, CacheOnly)
    /\ raw_entries[3] = SourceRecord("user", NestedCounts, TopCounts, OwnCounts)
    /\ Len(entries) = 2
    /\ entries[1].input_tokens = 1
    /\ entries[1].cache_read_tokens = 8
    /\ entries[2].input_tokens = 16
    /\ entries[2].cache_read_tokens = 128

(***************************************************************************)
(* Properties of the attachment of signals.                                *)
(***************************************************************************)
Attached == pc \in {"session", "rows", "done"}

\* The blocks whose span from start to nominal end, both included, holds
\* the instant t.
BlocksHolding(t) ==
    {i \in 1..Len(blocks) : blocks[i].start_time <= t /\ t <= blocks[i].end_time}

\* C23: once compute_quota has attached the signals, each signal is attached
\* to at most one block of the list, gap blocks included: no signal's
\* timestamp lies in the span of two different blocks.
C23_SignalInAtMostOneBlock ==
    Attached =>
        \A i \in 1..Len(blocks) :
            \A k \in 1..Len(blocks[i].limit_messages) :
                LET li == blocks[i].limit_messages[k]
                IN  /\ BlocksHolding(li.timestamp) = {i}
                    /\ \A j \in 1..Len(blocks) :
                          j # i => \A m \in 1..Len(blocks[j].limit_messages) :
                                      blocks[j].limit_messages[m] # li

(***************************************************************************)
(* Properties of the deduplication.                                        *)
(***************************************************************************)
Loaded == pc \notin {"start", "load"}

\* The events built with the identity key h.
EventsWithKey(h) ==
    {j \in 1..Len(entries) :
        /\ HasKey(entries[j])
        /\ FormatKey(entries[j].message_id, entries[j].request_id) = h}

\* C24: when load_usage_entries has returned, every identity key that some
\* scanned record carries together with a parseable timestamp within the
\* cutoff and a positive input or output count has exactly one usage event,
\* whatever the order of the records.
C24_OneEventPerQualifyingKey ==
    Loaded =>
        \A i \in 1..Len(raw_entries) :
            (RecordHasKey(raw_entries[i]) /\ Qualifies(raw_entries[i]))
            => Cardinality(EventsWithKey(_create_unique_hash(raw_entries[i]))) = 1

(***************************************************************************)
(* The shape of the list of blocks.                                        *)
(***************************************************************************)
RealIdx(bs) == {i \in 1..Len(bs) : ~bs[i].is_gap}

\* C25: for a time-sorted list of events, every event of a non-gap block is
\* at or after the block's start and before its nominal end; the non-gap
\* blocks come in strictly increasing order of start, with disjoint spans
\* from start (included) to nominal end (excluded); no gap block is first,
\* last or next to another gap block.
C25_BlocksOrderedAndDisjoint ==
    TransformDone =>
        /\ \A i \in RealIdx(blocks) :
              \A k \in 1..Len(blocks[i].entries) :
                  /\ blocks[i].start_time <= blocks[i].entries[k].timestamp
                  /\ blocks[i].entries[k].timestamp < blocks[i].end_time
        /\ \A i, j \in RealIdx(blocks) :
              i < j => /\ blocks[i].start_time < blocks[j].start_time
                       /\ blocks[i].end_time <= blocks[j].start_time
        /\ \A i \in 1..Len(blocks) :
              blocks[i].is_gap =>
                  /\ 1 < i
                  /\ i < Len(blocks)
                  /\ ~blocks[i - 1].is_gap
                  /\ ~blocks[i + 1].is_gap

\* A block whose last event is one tick before its nominal end, a gap, and
\* a block opened by an event off the hour.
C25_Witness ==
    /\ TransformDone
    /\ Len(blocks) = 3
    /\ blocks[2].is_gap
    /\ Len(blocks[1].entries) = 2
    /\ Last(blocks[1].entries).timestamp = blocks[1].end_time - 1
    /\ blocks[3].entries[1].timestamp > blocks[3].start_time

(***************************************************************************)
(* Properties of the tallies per model family.                             *)
(***************************************************************************)
Families == {"opus", "sonnet", "haiku", "other"}

\* The family of an event: opus if its model id contains "opus", else
\* sonnet, else haiku, else other, whatever the case; other for no id.
FamilyOf(e) ==
    LET has(w) == \E i \in 1..Len(e.model) : lower(e.model[i]) = w
    IN  IF has("opus") THEN "opus"
        ELSE IF has("sonnet") THEN "sonnet"
        ELSE IF has("haiku") THEN "haiku"
        ELSE "other"

\* The entries of per_model_stats for the family fam.
StatsOf(b, fam) ==
    SelectSeq(b.per_model_stats, LAMBDA s : s.family = fam)

EventsOf(b, fam) == SelectSeq(b.entries, LAMBDA e : FamilyOf(e) = fam)

Partitioned(b) ==
    /\ \A f \in TokenFields :
          SeqSum([i \in 1..Len(b.per_model_stats) |-> b.per_model_stats[i].stats[f]])
              = b.token_counts[f]
    /\ SeqSum([i \in 1..Len(b.per_model_stats) |->
                  b.per_model_stats[i].stats.entries_count])
          = b.sent_messages_count
    /\ b.sent_messages_count = Len(b.entries)
    /\ \A i \in 1..Len(b.per_model_stats) : b.per_model_stats[i].family \in Families
    /\ \A fam \in Families :
          IF EventsOf(b, fam) = <<>> THEN StatsOf(b, fam) = <<>>
          ELSE /\ Len(StatsOf(b, fam)) = 1
               /\ StatsOf(b, fam)[1].stats.entries_count = Len(EventsOf(b, fam))
               /\ \A f \in TokenFields :
                     StatsOf(b, fam)[1].stats[f] = SeqSum(Field(EventsOf(b, fam), f))
    /\ \A i, j \in 1..Len(b.models) : i # j => b.models[i] # b.models[j]

\* C26: after any sequence of events added to a block, for each of the four
\* token counters the sum over the families equals the block's counter, the
\* family event counts add up to the block's event count, each event is
\* counted in the one family its model id names, and the block's list of
\* models has no duplicate.
C26_FamiliesPartitionTotals ==
    /\ \A i \in 1..Len(blocks) : Partitioned(blocks[i])
    /\ current # <<>> => Partitioned(current[1])

\* A block of three events: two ids of the opus family, one of them twice.
C26_Witness ==
    /\ current # <<>>
    /\ Len(current[1].entries) = 3
    /\ Len(current[1].models) = 2
    /\ Len(current[1].per_model_stats) = 1
    /\ current[1].per_model_stats[1].family = "opus"
    /\ current[1].per_model_stats[1].stats.entries_count = 3
    /\ \E i \in 1..3 : current[1].entries[i].model[2] = "Opus"

====
